---- MODULE Spec2Model ----
(***************************************************************************)
(* A model of the Telegram automation scheduler: main.main and             *)
(* group_manager.join_groups over the SQLite ledger of db.py, the on-disk  *)
(* joined_groups.json, and message_scraper.scrape_messages.                *)
(*                                                                         *)
(* Group links and account phones are small integers.  A timestamp is kept *)
(* at the resolution the code reads it: substr(joined_at,1,10), the UTC    *)
(* date, here a day number.                                                *)
(***************************************************************************)
EXTENDS Integers, Sequences, FiniteSets, TLC

\* ------------------------------------------------------------------ bounds
MaxDay == 1
NGroups == 3
NAccounts == 2
MaxGlobalCap == 3
MaxAccountCap == 2
\* the all-joins-succeed scenario
ScenarioGlobalCap == 5
ScenarioAccountCap == 3
ScenarioGroups == 10
\* scrape_messages
MaxLimit == 3
RemoteLen == 3
MaxScrapes == 2
\* load_universal_groups: the entries of the catalog file
MaxCatalogLen == 3
\* rate_limiter: the clock, the configured delays, the random variation, and
\* how much longer than asked a sleep can take
MaxClock == 9
MaxDelay == 3
MaxJitter == 2
MaxOversleep == 1
\* AdvancedTelegramCrawler: config.MESSAGES_PER_GROUP
MaxMessages == 2

VARIABLES
  \* configuration (config.py) and the catalog returned by load_universal_groups
  GLOBAL_GROUPS_PER_DAY, GROUPS_PER_ACCOUNT, ACCOUNTS, SIMULATION_MODE,
  SCRAPE_EXISTING_GROUPS, universal_groups,
  \* environment: the UTC day, data/joined_groups.json, the groups joined on the
  \* Telegram side
  now, joined_file, network_joined,
  \* db.py: the rows of table groups
  groups,
  \* main.main's locals and position
  pc, joined_groups, pending_links, today, remaining_global, idx, allowed,
  to_join, k, joined_today,
  \* AccountManager: self.clients (the phones, in order) and the sessions that
  \* are connected
  clients, connected,
  \* history of the current run; auth_failed is the account whose client.start
  \* raised (0: none), remote_ops the kinds of remote operation issued
  joinedBy, priorToday, attempts, ledgerAtStart, fileAtStart, auth_failed,
  remote_ops,
  \* scraped: the groups scrape_messages was called for in the latest round that
  \* reached the scraping; raised_by: the call whose exception left main;
  \* pacing: the kinds of pause join_groups has made between attempts
  scraped, raised_by, pacing,
  \* history across runs: the groups joined in rounds that ran to their end
  completed,
  \* history of table groups: the latest values recorded per link, and whether a
  \* recorded link was recorded again with another timestamp and owner
  joinLast, joinReplaced,
  \* db.py: the rows of table messages; the first row offered per key, and whether
  \* a key was offered again with another date, sender and text
  messages, msgFirst, msgReoffered,
  \* message_scraper.scrape_messages: position, arguments, locals, outcome
  s_pc, s_group, s_limit, s_simulation, s_messages, s_result, s_flood,
  \* the sinks of scrape_messages: data/messages/<group>.json, data/messages.csv;
  \* s_tried is the sinks the current call has written or tried to write
  json_files, csv_rows, scrapes, s_tried,
  \* utils.load_universal_groups: the selected catalog file, config.CATEGORY_FILTER,
  \* position and outcome of the call
  catalog_file, CATEGORY_FILTER, c_pc, c_result,
  \* rate_limiter.RateLimiter: time.time(), config.GROUP_JOIN_DELAY and
  \* MESSAGE_DELAY, the object's fields, the operation being waited for, its
  \* position and its pending sleep
  clock, GROUP_JOIN_DELAY, MESSAGE_DELAY, last_group_join, last_message_read,
  r_op, r_pc, wait_time,
  \* history: when the previous invocation of each operation completed (0: none)
  prev_group_join, prev_message_read,
  \* advanced_crawler.AdvancedTelegramCrawler: position in crawl_groups, index of
  \* the client, the group_links left, groups_for_client and the index in it,
  \* self.stats; for the scrape of the current group: len(messages), the messages
  \* processed, the calls of wait_for_message_read, how the scrape ended
  a_pc, a_client, a_group_links, a_groups_for_client, a_i, stats,
  a_fetched, a_processed, a_reads, a_outcome,
  \* history: the join attempts of the crawl that failed
  a_failed_joins

cfgVars == <<GLOBAL_GROUPS_PER_DAY, GROUPS_PER_ACCOUNT, ACCOUNTS, SIMULATION_MODE,
             SCRAPE_EXISTING_GROUPS,
             universal_groups>>
envVars == <<now, joined_file, network_joined>>
mainVars == <<pc, joined_groups, pending_links, today, remaining_global, idx,
              allowed, to_join, k, joined_today>>
clientVars == <<clients, connected>>
histVars == <<joinedBy, priorToday, attempts, ledgerAtStart, fileAtStart, auth_failed,
              remote_ops, scraped, raised_by, pacing, completed>>
ledgerVars == <<groups, joinLast, joinReplaced>>
msgVars == <<messages, msgFirst, msgReoffered>>
scrapeVars == <<s_pc, s_group, s_limit, s_simulation, s_messages, s_result, s_flood,
                json_files, csv_rows, scrapes, s_tried>>
catalogVars == <<catalog_file, CATEGORY_FILTER, c_pc, c_result>>
rateVars == <<clock, GROUP_JOIN_DELAY, MESSAGE_DELAY, last_group_join,
              last_message_read, r_op, r_pc, wait_time, prev_group_join,
              prev_message_read>>
crawlerVars == <<a_pc, a_client, a_group_links, a_groups_for_client, a_i, stats,
                 a_fetched, a_processed, a_reads, a_outcome, a_failed_joins>>
schedVars == <<cfgVars, envVars, mainVars, clientVars, histVars>>
vars == <<schedVars, ledgerVars, msgVars, scrapeVars, catalogVars, rateVars,
          crawlerVars>>

\* ----------------------------------------------------------------- helpers
Max(a, b) == IF a >= b THEN a ELSE b
Min(a, b) == IF a <= b THEN a ELSE b
Range(s) == {s[n] : n \in DOMAIN s}
Iota(n) == [j \in 1..n |-> j]

RECURSIVE SortedSeq(_)
SortedSeq(S) ==
  IF S = {} THEN <<>>
  ELSE LET m == CHOOSE x \in S : \A y \in S : x <= y
       IN <<m>> \o SortedSeq(S \ {m})

RECURSIVE SumLens(_, _)
SumLens(f, n) == IF n = 0 THEN 0 ELSE Len(f[n]) + SumLens(f, n - 1)

\* list.remove(g): drops the first occurrence of g
RECURSIVE ListRemove(_, _)
ListRemove(s, g) ==
  IF s = <<>> THEN <<>>
  ELSE IF Head(s) = g THEN Tail(s)
  ELSE <<Head(s)>> \o ListRemove(Tail(s), g)

\* ------------------------------------------------------------------- db.py
\* INSERT OR IGNORE: a link already present keeps its row
UpsertKeepsOld(tbl, link, joined_at, account_phone) ==
  IF \E r \in tbl : r.link = link
  THEN tbl
  ELSE tbl \cup {[link |-> link, joined_at |-> joined_at,
                  account_phone |-> account_phone]}

\* INSERT ... ON CONFLICT(link) DO UPDATE SET joined_at, account_phone
Upsert(tbl, link, joined_at, account_phone) ==
  LET row == [link |-> link, joined_at |-> joined_at, account_phone |-> account_phone]
  IN IF \E r \in tbl : r.link = link
     THEN {IF r.link = link THEN row ELSE r : r \in tbl}
     ELSE tbl \cup {row}

\* f with x mapped to v
Put(f, x, v) == [y \in DOMAIN f \cup {x} |-> IF y = x THEN v ELSE f[y]]

\* record_group_join: the upsert, committed
record_group_join(link, joined_at, account_phone) ==
  /\ groups' = Upsert(groups, link, joined_at, account_phone)
  /\ joinLast' = Put(joinLast, link, <<joined_at, account_phone>>)
  /\ joinReplaced' = \/ joinReplaced
                     \/ /\ link \in DOMAIN joinLast
                        /\ joinLast[link][1] # joined_at
                        /\ joinLast[link][2] # account_phone

today_total_joins(tbl, date_str) ==
  Cardinality({r \in tbl : r.joined_at = date_str})

today_joins_for_phone(tbl, date_str, phone) ==
  Cardinality({r \in tbl : r.joined_at = date_str /\ r.account_phone = phone})

all_joined_links(tbl) == {r.link : r \in tbl}

\* -------------------------------------------------------- group_manager.py
\* data/joined_groups.json: absent, empty, not JSON, JSON that is no list, or a list
FileKinds == {"missing", "empty", "garbage", "nonlist", "list"}
NoFile == [kind |-> "missing", data |-> <<>>]

load_joined_groups(f) == IF f.kind = "list" THEN Range(f.data) ELSE {}

\* a save that writes no list
SaveNothing(s) == NoFile

save_joined_groups(s) == [kind |-> "list", data |-> SortedSeq(s)]

\* ----------------------------------------------------------------- main.py
AlreadyJoinedFileOnly(jg, db) == jg

AlreadyJoinedAll(jg, db) == jg \cup db

PendingLinksUnfiltered(all, already) == all

PendingLinks(all, already) == SelectSeq(all, LAMBDA g : g \notin already)

\* the day's budget without the ledger's count of today's joins
RemainingGlobalNoCount(cap, total_today) == cap

RemainingGlobal(cap, total_today) == Max(0, cap - total_today)

RemainingForAccountNoCount(cap, acc_today) == cap

RemainingForAccount(cap, acc_today) == Max(0, cap - acc_today)

AllowedIgnoresGlobal(remaining_for_account, rem_global) == remaining_for_account

Allowed(remaining_for_account, rem_global) == Min(remaining_for_account, rem_global)

ToJoin(pending, n) == SubSeq(pending, 1, Min(n, Len(pending)))

RemainingAfterStale(rem_global, joined_count) == rem_global

RemainingAfter(rem_global, joined_count) == rem_global - joined_count

StaleJoinedToday == joined_today

NewJoinedToday == <<>>

\* the pending list with the joined groups left in
RemoveNothing(pending, joined) == pending

RECURSIVE RemoveJoined(_, _)
RemoveJoined(pending, joined) ==
  IF joined = <<>> THEN pending
  ELSE RemoveJoined(IF Head(joined) \in Range(pending)
                    THEN ListRemove(pending, Head(joined)) ELSE pending,
                    Tail(joined))

\* no process is running: main's locals and the history of its run do not exist
NoProcess(A) ==
  /\ pc = "idle"
  /\ joined_groups = {}
  /\ pending_links = <<>>
  /\ today = 0
  /\ remaining_global = 0
  /\ idx = 1
  /\ allowed = 0
  /\ to_join = <<>>
  /\ k = 1
  /\ joined_today = <<>>
  /\ joinedBy = [a \in 1..A |-> <<>>]
  /\ priorToday = 0
  /\ attempts = <<>>
  /\ ledgerAtStart = {}
  /\ fileAtStart = {}
  /\ clients = <<>>
  /\ connected = {}
  /\ auth_failed = 0
  /\ remote_ops = {}
  /\ scraped = {}
  /\ raised_by = "none"
  /\ pacing = {}

\* the state after start-up with global cap G, per-account cap P, A accounts,
\* a catalog of N distinct groups and simulation mode sim
InitProgram(G, P, A, N, sim) ==
  /\ GLOBAL_GROUPS_PER_DAY = G
  /\ GROUPS_PER_ACCOUNT = P
  /\ ACCOUNTS = Iota(A)
  /\ SIMULATION_MODE = sim
  /\ SCRAPE_EXISTING_GROUPS = TRUE
  /\ universal_groups = Iota(N)
  /\ now = 0
  /\ joined_file = NoFile
  /\ network_joined = {}
  /\ groups = {}
  /\ NoProcess(A)
  /\ completed = {}
  /\ joinLast = <<>>
  /\ joinReplaced = FALSE
  /\ messages = {}
  /\ msgFirst = <<>>
  /\ msgReoffered = FALSE
  /\ s_pc = "idle"
  /\ s_group = 1
  /\ s_limit = 0
  /\ s_simulation = FALSE
  /\ s_messages = <<>>
  /\ s_result = <<>>
  /\ s_flood = FALSE
  /\ json_files = <<>>
  /\ csv_rows = <<>>
  /\ scrapes = 0
  /\ s_tried = {}

\* no catalog file is looked at
NoCatalogCall ==
  /\ catalog_file = [kind |-> "missing"]
  /\ CATEGORY_FILTER = ""
  /\ c_pc = "idle"
  /\ c_result = [kind |-> "none", value |-> <<>>]

\* RateLimiter.__init__ with the configured delays
RateLimiterInit(group_join_delay, message_delay) ==
  /\ clock = 1
  /\ GROUP_JOIN_DELAY = group_join_delay
  /\ MESSAGE_DELAY = message_delay
  /\ last_group_join = 0
  /\ last_message_read = 0
  /\ r_op = "none"
  /\ r_pc = "idle"
  /\ wait_time = 0
  /\ prev_group_join = 0
  /\ prev_message_read = 0

\* AdvancedTelegramCrawler.__init__; crawl_groups is not running
NoCrawler ==
  /\ a_pc = "idle"
  /\ a_client = 1
  /\ a_group_links = <<>>
  /\ a_groups_for_client = <<>>
  /\ a_i = 1
  /\ stats = [groups_joined |-> 0, messages_scraped |-> 0, errors |-> 0]
  /\ a_fetched = 0
  /\ a_processed = 0
  /\ a_reads = 0
  /\ a_outcome = "none"
  /\ a_failed_joins = 0

InitWith(G, P, A, N, sim) ==
  /\ InitProgram(G, P, A, N, sim)
  /\ NoCatalogCall
  /\ RateLimiterInit(1, 1)
  /\ NoCrawler

Init ==
  \E G \in 1..MaxGlobalCap : \E P \in 1..MaxAccountCap :
    InitWith(G, P, NAccounts, NGroups, FALSE)

\* AccountManager.init_clients: client.start for each account in order; failing
\* is the account whose client.start raises (0: none), which ends the loop with
\* the exception
init_clients(failing) ==
  /\ clients' = IF failing = 0 THEN ACCOUNTS ELSE SubSeq(ACCOUNTS, 1, failing - 1)
  /\ connected' = Range(clients')
  /\ auth_failed' = failing
  /\ remote_ops' = {"connect"}

\* AccountManager.close_clients: every session of self.clients is disconnected
close_clients == connected' = connected \ Range(clients)

\* main.main up to the account loop
StartRun ==
  /\ pc = "idle"
  /\ LET jg == load_joined_groups(joined_file)
         pend == PendingLinks(universal_groups,
                              AlreadyJoinedAll(jg, all_joined_links(groups)))
         rem == RemainingGlobal(GLOBAL_GROUPS_PER_DAY, today_total_joins(groups, now))
     IN /\ joined_groups' = jg
        /\ pending_links' = pend
        /\ IF pend = <<>>
           THEN /\ pc' = "done"
                /\ auth_failed' = 0
                /\ remote_ops' = {}
                /\ UNCHANGED <<today, remaining_global, clientVars>>
           ELSE \E failing \in 0..Len(ACCOUNTS) :
                  /\ init_clients(failing)
                  /\ IF failing # 0
                     THEN /\ pc' = "raised"
                          /\ UNCHANGED <<today, remaining_global>>
                     ELSE /\ today' = now
                          /\ remaining_global' = rem
                          /\ pc' = IF rem <= 0 THEN "done" ELSE "account"
  /\ idx' = 1
  /\ raised_by' = IF auth_failed' # 0 THEN "init_clients" ELSE "none"
  /\ scraped' = {}
  /\ pacing' = {}
  /\ joinedBy' = [a \in DOMAIN ACCOUNTS |-> <<>>]
  /\ priorToday' = today_total_joins(groups, now)
  /\ attempts' = <<>>
  /\ ledgerAtStart' = groups
  /\ fileAtStart' = load_joined_groups(joined_file)
  /\ UNCHANGED <<cfgVars, envVars, ledgerVars, allowed, to_join, k, joined_today,
                 completed, msgVars, scrapeVars, catalogVars, rateVars, crawlerVars>>

\* the head of one iteration of the account loop, up to the call of join_groups;
\* when the loop ends or breaks, the finally clause closes the clients
AccountStep ==
  /\ pc = "account"
  /\ IF idx > Len(clients) \/ remaining_global <= 0
     THEN /\ pc' = "done"
          /\ close_clients
          /\ UNCHANGED <<idx, allowed, to_join, k, joined_today, clients>>
     ELSE LET acc_today == today_joins_for_phone(groups, today, clients[idx])
              remaining_for_account == RemainingForAccount(GROUPS_PER_ACCOUNT, acc_today)
              n == Allowed(remaining_for_account, remaining_global)
          IN IF remaining_for_account <= 0
             THEN /\ idx' = idx + 1
                  /\ UNCHANGED <<pc, allowed, to_join, k, joined_today, clientVars>>
             ELSE /\ allowed' = n
                  /\ to_join' = ToJoin(pending_links, n)
                  /\ IF to_join' = <<>>
                     THEN /\ pc' = "done"
                          /\ close_clients
                          /\ UNCHANGED <<idx, k, joined_today, clients>>
                     ELSE /\ pc' = "join"
                          /\ k' = 1
                          /\ joined_today' = NewJoinedToday
                          /\ UNCHANGED <<idx, clientVars>>
  /\ UNCHANGED <<cfgVars, envVars, ledgerVars, joined_groups, pending_links, today,
                 remaining_global, histVars, msgVars, scrapeVars, catalogVars, rateVars, crawlerVars>>

\* the for loop of join_groups moves to the next group, or ends
NextGroup ==
  IF k < Len(to_join)
  THEN /\ k' = k + 1
       /\ pc' = "join"
  ELSE /\ k' = k
       /\ pc' = "update"

\* await asyncio.sleep(delay): the fixed pause of join_groups after an attempt
SleepDelay == pacing \cup {"asyncio.sleep(delay)"}

\* the join request is accepted by Telegram; none is sent in simulation
JoinedOnNetwork(group) ==
  IF SIMULATION_MODE THEN network_joined ELSE network_joined \cup {group}

\* join_groups: the join request and both writes succeed
JoinSucceed ==
  LET group == to_join[k]
  IN /\ network_joined' = JoinedOnNetwork(group)
     /\ record_group_join(group, now, clients[idx])
     /\ joined_groups' = joined_groups \cup {group}
     /\ joined_today' = Append(joined_today, group)
     /\ joinedBy' = [joinedBy EXCEPT ![idx] = joined_today']
     /\ attempts' = Append(attempts, [acct |-> idx, group |-> group, ok |-> TRUE])
     /\ IF Len(joined_today') >= allowed
        THEN /\ pc' = "update"
             /\ k' = k
             /\ UNCHANGED pacing
        ELSE /\ pacing' = SleepDelay
             /\ NextGroup

\* a failure that leaves the for loop instead of continuing it
JoinFailEndsRound ==
  LET group == to_join[k]
  IN /\ attempts' = Append(attempts, [acct |-> idx, group |-> group, ok |-> FALSE])
     /\ k' = k
     /\ pc' = "update"
     /\ pacing' = SleepDelay
     /\ UNCHANGED <<ledgerVars, joined_groups, joined_today, joinedBy, network_joined>>

\* join_groups: resolving the target, the join request or the append to
\* groups.csv raises; the except clause logs and sleeps
JoinFail ==
  LET group == to_join[k]
  IN /\ attempts' = Append(attempts, [acct |-> idx, group |-> group, ok |-> FALSE])
     /\ pacing' = SleepDelay
     /\ NextGroup
     /\ UNCHANGED <<ledgerVars, joined_groups, joined_today, joinedBy, network_joined>>

\* the group enters joined_groups and joined_today although its ledger write
\* raised
JoinLedgerFailAfterAdd ==
  LET group == to_join[k]
  IN /\ network_joined' = JoinedOnNetwork(group)
     /\ joined_groups' = joined_groups \cup {group}
     /\ joined_today' = Append(joined_today, group)
     /\ joinedBy' = [joinedBy EXCEPT ![idx] = joined_today']
     /\ attempts' = Append(attempts, [acct |-> idx, group |-> group, ok |-> FALSE])
     /\ pacing' = SleepDelay
     /\ NextGroup
     /\ UNCHANGED ledgerVars

\* join_groups: the join request is accepted and groups.csv appended, then
\* record_group_join raises; the same except clause logs and sleeps
JoinLedgerFail ==
  LET group == to_join[k]
  IN /\ network_joined' = JoinedOnNetwork(group)
     /\ attempts' = Append(attempts, [acct |-> idx, group |-> group, ok |-> FALSE])
     /\ pacing' = SleepDelay
     /\ NextGroup
     /\ UNCHANGED <<ledgerVars, joined_groups, joined_today, joinedBy>>

\* how one attempt of join_groups can end
JoinOutcomes == {"joined", "raises", "ledger_raises"}

\* one iteration of the for loop of join_groups, the attempt ending in one of
\* the given outcomes
JoinGroupsIteration(outcomes) ==
  /\ pc = "join"
  /\ IF to_join[k] \in joined_groups
     THEN /\ NextGroup
          /\ UNCHANGED <<ledgerVars, joined_groups, joined_today, joinedBy, attempts,
                         network_joined, remote_ops, pacing>>
     ELSE /\ remote_ops' = IF SIMULATION_MODE THEN remote_ops
                           ELSE remote_ops \cup {"join"}
          /\ \E outcome \in outcomes :
               CASE outcome = "joined" -> JoinSucceed
                 [] outcome = "raises" -> JoinFail
                 [] OTHER -> JoinLedgerFail
  /\ UNCHANGED <<cfgVars, now, joined_file, pending_links, today, remaining_global,
                 idx, allowed, to_join, clientVars, priorToday, ledgerAtStart,
                 fileAtStart, auth_failed, scraped, raised_by, completed, msgVars,
                 scrapeVars, catalogVars, rateVars, crawlerVars>>

\* the ledger is writable: an attempt joins or raises before anything is recorded
JoinGroupsStep == JoinGroupsIteration({"joined", "raises"})

\* the groups scrape_messages is called for after a round: the ones joined in the
\* round, then every member of joined_groups when SCRAPE_EXISTING_GROUPS is set
ScrapeTargets(joined, known) ==
  Range(joined) \cup (IF SCRAPE_EXISTING_GROUPS THEN known ELSE {})

\* how the rest of a round can end: the progress is saved, a JSON or CSV write of
\* scrape_messages raises, or the write of joined_groups.json raises
RoundOutcomes == {"saved", "scrape_raises", "save_raises"}

\* main.main after join_groups returns: tracking, budget, scraping, save; when a
\* write of the scraping or of the save raises, the finally clause closes the
\* clients and the exception leaves main
FinishRoundWith(outcomes) ==
  /\ pc = "update"
  /\ pending_links' = RemoveJoined(pending_links, joined_today)
  /\ joined_groups' = joined_groups \cup Range(joined_today)
  /\ remaining_global' = RemainingAfter(remaining_global, Len(joined_today))
  /\ LET targets == ScrapeTargets(joined_today, joined_groups')
     IN /\ remote_ops' = IF SIMULATION_MODE \/ targets = {} THEN remote_ops
                         ELSE remote_ops \cup {"iter_messages"}
        /\ \E outcome \in outcomes :
             CASE outcome = "saved" ->
                    /\ scraped' = targets
                    /\ joined_file' = save_joined_groups(joined_groups')
                    /\ idx' = idx + 1
                    /\ pc' = "account"
                    /\ completed' = completed \cup Range(joined_today)
                    /\ UNCHANGED <<connected, raised_by>>
               [] outcome = "scrape_raises" ->
                    /\ ~SIMULATION_MODE
                    /\ scraped' \in SUBSET targets \ {{}}
                    /\ close_clients
                    /\ pc' = "raised"
                    /\ raised_by' = "scrape_messages"
                    /\ UNCHANGED <<joined_file, idx, completed>>
               [] OTHER ->
                    /\ scraped' = targets
                    /\ close_clients
                    /\ pc' = "raised"
                    /\ raised_by' = "save_joined_groups"
                    /\ UNCHANGED <<joined_file, idx, completed>>
  /\ UNCHANGED <<cfgVars, now, network_joined, ledgerVars, today, allowed, to_join, k,
                 joined_today, clients, joinedBy, priorToday, attempts, ledgerAtStart,
                 fileAtStart, auth_failed, pacing, msgVars, scrapeVars, catalogVars,
                 rateVars, crawlerVars>>

\* the files of the scraping and data/joined_groups.json are writable
FinishRound == FinishRoundWith({"saved"})

\* the process is gone: main's locals, the sessions and the history of the run
ProcessGone ==
  /\ pc' = "idle"
  /\ joined_groups' = {}
  /\ pending_links' = <<>>
  /\ today' = 0
  /\ remaining_global' = 0
  /\ idx' = 1
  /\ allowed' = 0
  /\ to_join' = <<>>
  /\ k' = 1
  /\ joined_today' = <<>>
  /\ joinedBy' = [a \in DOMAIN ACCOUNTS |-> <<>>]
  /\ priorToday' = 0
  /\ attempts' = <<>>
  /\ ledgerAtStart' = {}
  /\ fileAtStart' = {}
  /\ clients' = <<>>
  /\ connected' = {}
  /\ auth_failed' = 0
  /\ remote_ops' = {}
  /\ scraped' = {}
  /\ raised_by' = "none"
  /\ pacing' = {}
  /\ UNCHANGED <<cfgVars, envVars, ledgerVars, completed, msgVars, scrapeVars,
                 catalogVars, rateVars, crawlerVars>>

\* main has returned or raised and the process exits
Return ==
  /\ pc \in {"done", "raised"}
  /\ ProcessGone

\* the UTC date changes; the code reads the clock when a run starts and when a
\* join is recorded
Tick ==
  /\ pc \in {"idle", "join"}
  /\ now < MaxDay
  /\ now' = now + 1
  /\ UNCHANGED <<cfgVars, joined_file, network_joined, ledgerVars, mainVars,
                 clientVars, histVars, msgVars, scrapeVars, catalogVars, rateVars, crawlerVars>>

\* between runs data/joined_groups.json is lost or damaged
LoseJoinedFile ==
  /\ pc = "idle"
  /\ joined_file.kind = "list"
  /\ \E kind \in FileKinds \ {"list"} :
       joined_file' = [kind |-> kind, data |-> <<>>]
  /\ UNCHANGED <<cfgVars, now, network_joined, ledgerVars, mainVars, clientVars,
                 histVars, msgVars, scrapeVars, catalogVars, rateVars, crawlerVars>>

Next ==
  \/ StartRun
  \/ AccountStep
  \/ JoinGroupsStep
  \/ FinishRound
  \/ Return
  \/ Tick
  \/ LoseJoinedFile

Spec == Init /\ [][Next]_vars

\* --------------------------- the scheduler when storage writes can also fail
JoinGroupsStepOrStorageError == JoinGroupsIteration(JoinOutcomes)

FinishRoundOrStorageError == FinishRoundWith(RoundOutcomes)

NextFaults ==
  \/ StartRun
  \/ AccountStep
  \/ JoinGroupsStepOrStorageError
  \/ FinishRoundOrStorageError
  \/ Return
  \/ Tick
  \/ LoseJoinedFile

SpecFaults == Init /\ [][NextFaults]_vars

\* ------------------- the scheduler when data/joined_groups.json is never lost
NextDays ==
  \/ StartRun
  \/ AccountStep
  \/ JoinGroupsStep
  \/ FinishRound
  \/ Return
  \/ Tick

SpecDays == Init /\ [][NextDays]_vars

\* ------------------------------ the scheduler when the process can be killed
\* the process is terminated from outside while main is in the account loop
Crash ==
  /\ pc \in {"account", "join", "update"}
  /\ ProcessGone

NextCrash ==
  \/ StartRun
  \/ AccountStep
  \/ JoinGroupsStepOrStorageError
  \/ FinishRoundOrStorageError
  \/ Return
  \/ Crash
  \/ LoseJoinedFile

SpecCrash == Init /\ [][NextCrash]_vars

\* ------------------------------------------- the scheduler in simulation mode
InitSimulation ==
  \E G \in 1..MaxGlobalCap : \E P \in 1..MaxAccountCap :
    InitWith(G, P, NAccounts, NGroups, TRUE)

SpecSimulation == InitSimulation /\ [][Next]_vars

\* ------------------------------------------------ db.py: record_group_join
\* record_group_join called with any link, timestamp and owner
RecordGroupJoinCall ==
  /\ \E link \in 1..NGroups : \E joined_at \in 0..MaxDay : \E phone \in 1..NAccounts :
       record_group_join(link, joined_at, phone)
  /\ UNCHANGED <<schedVars, msgVars, scrapeVars, catalogVars, rateVars, crawlerVars>>

NextLedger == RecordGroupJoinCall

SpecLedger == Init /\ [][NextLedger]_vars

\* -------------------------------------------------- db.py: record_messages
\* Python's None
NoneVal == "<None>"

\* the message dicts handed to record_messages
MessageIds == {1, 2}
MessageLinks == {1, 2}
MessagePayloads ==
  { [date |-> 0, sender_id |-> NoneVal, text |-> NoneVal],
    [date |-> 1, sender_id |-> "7", text |-> "hi"],
    [date |-> 1, sender_id |-> NoneVal, text |-> ""] }
MessageDicts ==
  { [id |-> i, date |-> p.date, sender_id |-> p.sender_id, text |-> p.text] :
      i \in MessageIds, p \in MessagePayloads }
MessageBatches ==
  {<<>>} \cup {<<m>> : m \in MessageDicts}
         \cup {<<m1, m2>> : m1 \in MessageDicts, m2 \in MessageDicts}

\* the tuple built for one message: text None becomes ""
MessageRow(group_link, m) ==
  [id |-> m.id, group_link |-> group_link, date |-> m.date,
   sender_id |-> m.sender_id,
   text |-> IF m.text = NoneVal THEN "" ELSE m.text]

MessageKey(row) == <<row.id, row.group_link>>

\* INSERT OR REPLACE: the new row takes the place of the stored one
InsertOrReplace(tbl, row) ==
  {r \in tbl : MessageKey(r) # MessageKey(row)} \cup {row}

\* INSERT OR IGNORE under PRIMARY KEY (id, group_link)
InsertOrIgnore(tbl, row) ==
  IF \E r \in tbl : MessageKey(r) = MessageKey(row) THEN tbl ELSE tbl \cup {row}

\* executemany: the rows in order
RECURSIVE ExecuteMany(_, _, _)
ExecuteMany(tbl, group_link, msgs) ==
  IF msgs = <<>> THEN tbl
  ELSE ExecuteMany(InsertOrIgnore(tbl, MessageRow(group_link, Head(msgs))),
                   group_link, Tail(msgs))

_record_messages_sync(tbl, group_link, msgs) ==
  IF msgs = <<>> THEN tbl ELSE ExecuteMany(tbl, group_link, msgs)

\* the first row offered per key
RECURSIVE FirstOffered(_, _, _)
FirstOffered(f, group_link, msgs) ==
  IF msgs = <<>> THEN f
  ELSE LET row == MessageRow(group_link, Head(msgs))
       IN FirstOffered(IF MessageKey(row) \in DOMAIN f THEN f
                       ELSE Put(f, MessageKey(row), row),
                       group_link, Tail(msgs))

\* some message of the batch has a key offered before, with another date,
\* sender and text than the first row offered for it
RECURSIVE Reoffers(_, _, _)
Reoffers(f, group_link, msgs) ==
  IF msgs = <<>> THEN FALSE
  ELSE LET row == MessageRow(group_link, Head(msgs))
           key == MessageKey(row)
       IN \/ /\ key \in DOMAIN f
             /\ f[key].date # row.date
             /\ f[key].sender_id # row.sender_id
             /\ f[key].text # row.text
          \/ Reoffers(IF key \in DOMAIN f THEN f ELSE Put(f, key, row),
                      group_link, Tail(msgs))

\* record_messages, committed
record_messages(group_link, msgs) ==
  /\ messages' = _record_messages_sync(messages, group_link, msgs)
  /\ msgFirst' = FirstOffered(msgFirst, group_link, msgs)
  /\ msgReoffered' = (msgReoffered \/ Reoffers(msgFirst, group_link, msgs))

\* record_messages called with any group and batch
RecordMessagesCall ==
  /\ \E group_link \in MessageLinks : \E msgs \in MessageBatches :
       record_messages(group_link, msgs)
  /\ UNCHANGED <<schedVars, ledgerVars, scrapeVars, catalogVars, rateVars, crawlerVars>>

NextMessages == RecordMessagesCall

SpecMessages == Init /\ [][NextMessages]_vars

\* --------------------------------------- the scheduler when every join succeeds
InitScenario ==
  \E G \in 1..ScenarioGlobalCap : \E P \in 1..ScenarioAccountCap :
    \E A \in 1..NAccounts : \E N \in G..ScenarioGroups :
      InitWith(G, P, A, N, FALSE)

JoinGroupsAllSucceed == JoinGroupsIteration({"joined"})

NextScenario ==
  \/ StartRun
  \/ AccountStep
  \/ JoinGroupsAllSucceed
  \/ FinishRound
  \/ Return
  \/ Tick

SpecScenario == InitScenario /\ [][NextScenario]_vars

\* ------------------------------------- message_scraper.py: scrape_messages
\* what client.iter_messages yields for a group, newest first
RemoteHistory(group) ==
  [n \in 1..RemoteLen |->
     [id |-> RemoteLen + 1 - n,
      date |-> n % 2,
      sender_id |-> IF n % 2 = 0 THEN NoneVal ELSE "7",
      message |-> IF n = 1 THEN NoneVal ELSE "hi"]]

\* the dict appended for one fetched message
ScrapedDict(msg) ==
  [id |-> msg.id, date |-> msg.date, sender_id |-> msg.sender_id, text |-> msg.message]

\* the row written to data/messages.csv for one message
CsvRow(group, m) ==
  [date |-> m.date, group |-> group, message_id |-> m.id, sender_id |-> m.sender_id,
   text |-> IF m.text = NoneVal THEN "" ELSE m.text]

CsvRows(group, msgs) == [n \in DOMAIN msgs |-> CsvRow(group, msgs[n])]

\* scrape_messages is called; in simulation it returns [] at once
ScrapeCall ==
  /\ s_pc \in {"idle", "returned", "raised"}
  /\ scrapes < MaxScrapes
  /\ scrapes' = scrapes + 1
  /\ \E group \in MessageLinks : \E limit \in 1..MaxLimit : \E simulation \in BOOLEAN :
       /\ s_group' = group
       /\ s_limit' = limit
       /\ s_simulation' = simulation
       /\ s_pc' = IF simulation THEN "returned" ELSE "fetch"
  /\ s_messages' = <<>>
  /\ s_result' = <<>>
  /\ s_flood' = FALSE
  /\ s_tried' = {}
  /\ UNCHANGED <<catalogVars, rateVars, crawlerVars, schedVars, ledgerVars, msgVars, json_files, csv_rows>>

\* the iterator yields the next message
FetchMessage ==
  /\ s_pc = "fetch"
  /\ Len(s_messages) < Min(s_limit, RemoteLen)
  /\ s_messages' = Append(s_messages,
                          ScrapedDict(RemoteHistory(s_group)[Len(s_messages) + 1]))
  /\ UNCHANGED <<catalogVars, rateVars, crawlerVars, schedVars, ledgerVars, msgVars, s_pc, s_group, s_limit, s_simulation,
                 s_result, s_flood, json_files, csv_rows, scrapes, s_tried>>

\* the iterator raises (flood wait) before the limit is reached: except, return []
FetchRaises ==
  /\ s_pc = "fetch"
  /\ Len(s_messages) < s_limit
  /\ s_flood' = TRUE
  /\ s_result' = <<>>
  /\ s_pc' = "returned"
  /\ UNCHANGED <<catalogVars, rateVars, crawlerVars, schedVars, ledgerVars, msgVars, s_group, s_limit, s_simulation,
                 s_messages, json_files, csv_rows, scrapes, s_tried>>

\* the iterator ends; the JSON snapshot is written, or the write raises
SaveJson ==
  /\ s_pc = "fetch"
  /\ Len(s_messages) = Min(s_limit, RemoteLen)
  /\ s_tried' = s_tried \cup {"json"}
  /\ \/ /\ json_files' = Put(json_files, s_group, s_messages)
        /\ s_pc' = "csv"
     \/ /\ s_pc' = "raised"
        /\ UNCHANGED json_files
  /\ UNCHANGED <<catalogVars, rateVars, crawlerVars, schedVars, ledgerVars, msgVars, s_group, s_limit, s_simulation,
                 s_messages, s_result, s_flood, csv_rows, scrapes>>

\* the rows are appended to data/messages.csv after the header, or the write raises
SaveCsv ==
  /\ s_pc = "csv"
  /\ s_tried' = s_tried \cup {"csv"}
  /\ \/ /\ csv_rows' = (IF csv_rows = <<>> THEN <<"header">> ELSE csv_rows)
                          \o CsvRows(s_group, s_messages)
        /\ s_pc' = "db"
     \/ /\ s_pc' = "raised"
        /\ UNCHANGED csv_rows
  /\ UNCHANGED <<catalogVars, rateVars, crawlerVars, schedVars, ledgerVars, msgVars, s_group, s_limit, s_simulation,
                 s_messages, s_result, s_flood, json_files, scrapes>>

\* record_messages commits, or raises and is caught; the messages are returned
SaveDb ==
  /\ s_pc = "db"
  /\ s_tried' = s_tried \cup {"db"}
  /\ \/ record_messages(s_group, s_messages)
     \/ UNCHANGED msgVars
  /\ s_result' = s_messages
  /\ s_pc' = "returned"
  /\ UNCHANGED <<catalogVars, rateVars, crawlerVars, schedVars, ledgerVars, s_group, s_limit, s_simulation, s_messages,
                 s_flood, json_files, csv_rows, scrapes>>

NextScrape ==
  \/ ScrapeCall
  \/ FetchMessage
  \/ FetchRaises
  \/ SaveJson
  \/ SaveCsv
  \/ SaveDb

SpecScrape == Init /\ [][NextScrape]_vars

\* ---------------------------------------- utils.py: load_universal_groups
\* a key that the dict does not have
Absent == "<absent>"

\* str.strip() and str.lower() on the strings of the catalog files below
Strip(str) ==
  CASE str = " a " -> "a"
    [] str = " High " -> "High"
    [] str = "Jobs " -> "Jobs"
    [] OTHER -> str

Lower(str) ==
  CASE str = "High" -> "high"
    [] str = " High " -> " high "
    [] str = "Jobs" -> "jobs"
    [] str = "Jobs " -> "jobs "
    [] OTHER -> str

\* dict.get(key, default)
Get(value, default) == IF value = Absent THEN default ELSE value

\* x or y, for x a string or None
Or(x, y) == IF x = NoneVal \/ x = "" THEN y ELSE x

\* the elements a parsed catalog can hold: objects, and strings
CatalogObjects ==
  { [type |-> "object", link |-> l, url |-> Absent, category |-> c, priority |-> p] :
      l \in {"a", " a ", "b"}, c \in {"jobs", "news"},
      p \in {"high", "low", " High ", Absent} }
  \cup { [type |-> "object", link |-> Absent, url |-> "b", category |-> Absent,
          priority |-> NoneVal],
         [type |-> "object", link |-> "", url |-> Absent, category |-> "Jobs ",
          priority |-> "medium"] }

CatalogStrings ==
  { [type |-> "string", link |-> "https://t.me/a", url |-> Absent, category |-> Absent,
     priority |-> Absent] }

CatalogItems == CatalogObjects \cup CatalogStrings

SeqsUpTo(S, n) == UNION {[1..m -> S] : m \in 0..n}

\* the selected catalog file: absent, not JSON, or JSON whose top level is an
\* array, an object (iterated by its keys) or null
CatalogFiles ==
  { [kind |-> "missing"], [kind |-> "unparseable"],
    [kind |-> "json", type |-> "null", items |-> <<>>],
    [kind |-> "json", type |-> "object", items |-> <<>>] }
  \cup { [kind |-> "json", type |-> "object", items |-> <<str>>] : str \in CatalogStrings }
  \cup { [kind |-> "json", type |-> "array", items |-> items] :
           items \in SeqsUpTo(CatalogItems, MaxCatalogLen) }

CategoryFilters == {"", "jobs"}

priority_rank(priority) ==
  CASE priority = "high" -> 1
    [] priority = "medium" -> 2
    [] priority = "low" -> 3
    [] OTHER -> 99

\* the later entry also replaces an existing one of the same rank
ReplacesOnTie(priority, existing) == priority_rank(priority) <= priority_rank(existing)

\* the later entry replaces the existing one only when its rank is smaller
Replaces(priority, existing) == priority_rank(priority) < priority_rank(existing)

\* link, category and priority as the loop normalizes them
NormLink(raw) == Strip(Or(Or(Get(raw.link, NoneVal), Get(raw.url, NoneVal)), ""))
NormCategory(raw) == Strip(Or(Get(raw.category, ""), ""))
NormPriority(raw) == Lower(Strip(Or(Get(raw.priority, "medium"), "medium")))
NormEntry(raw) ==
  [link |-> NormLink(raw), category |-> NormCategory(raw), priority |-> NormPriority(raw)]

\* the category filter of the list comprehension
PassesFilter(raw, filter) == Lower(Strip(Or(Get(raw.category, ""), ""))) = filter

\* link_to_entry after the loop over the raw entries: a dict keeps its keys in
\* insertion order, and assigning to an existing key keeps the key's place
RECURSIVE Dedupe(_, _)
Dedupe(link_to_entry, raws) ==
  IF raws = <<>> THEN link_to_entry
  ELSE LET entry == NormEntry(Head(raws))
           at == {n \in DOMAIN link_to_entry : link_to_entry[n].link = entry.link}
       IN IF entry.link = "" THEN Dedupe(link_to_entry, Tail(raws))
          ELSE IF at = {} THEN Dedupe(Append(link_to_entry, entry), Tail(raws))
          ELSE LET n == CHOOSE n \in at : TRUE
               IN IF Replaces(entry.priority, link_to_entry[n].priority)
                  THEN Dedupe([link_to_entry EXCEPT ![n] = entry], Tail(raws))
                  ELSE Dedupe(link_to_entry, Tail(raws))

\* list.sort(key=rank), which is stable
SortByRank(entries) ==
  SelectSeq(entries, LAMBDA e : priority_rank(e.priority) = 1)
  \o SelectSeq(entries, LAMBDA e : priority_rank(e.priority) = 2)
  \o SelectSeq(entries, LAMBDA e : priority_rank(e.priority) = 3)
  \o SelectSeq(entries, LAMBDA e : priority_rank(e.priority) = 99)

Returned(value) == [kind |-> "returned", value |-> value]
Raised == [kind |-> "raised", value |-> <<>>]

\* load_universal_groups on the selected file; calling .get on an element that
\* is a string raises AttributeError, outside the try
load_universal_groups(file, filter) ==
  IF file.kind \in {"missing", "unparseable"} THEN Returned(<<>>)
  ELSE IF file.items = <<>> THEN Returned(<<>>)
  ELSE IF \E n \in DOMAIN file.items : file.items[n].type = "string" THEN Raised
  ELSE LET filtered == IF filter # ""
                       THEN SelectSeq(file.items, LAMBDA g : PassesFilter(g, filter))
                       ELSE file.items
       IN Returned(SortByRank(Dedupe(<<>>, filtered)))

\* the catalog file and the filter of a start-up
InitCatalog ==
  /\ InitProgram(MaxGlobalCap, MaxAccountCap, NAccounts, NGroups, FALSE)
  /\ RateLimiterInit(1, 1)
  /\ NoCrawler
  /\ catalog_file \in CatalogFiles
  /\ CATEGORY_FILTER \in CategoryFilters
  /\ c_pc = "idle"
  /\ c_result = [kind |-> "none", value |-> <<>>]

LoadUniversalGroupsCall ==
  /\ c_pc = "idle"
  /\ c_result' = load_universal_groups(catalog_file, CATEGORY_FILTER)
  /\ c_pc' = "done"
  /\ UNCHANGED <<schedVars, ledgerVars, msgVars, scrapeVars, catalog_file,
                 CATEGORY_FILTER, rateVars, crawlerVars>>

NextCatalog == LoadUniversalGroupsCall

SpecCatalog == InitCatalog /\ [][NextCatalog]_vars

\* ------------------------------------------------- rate_limiter.RateLimiter
RateOps == {"group_join", "message_read"}

Delay(op) == IF op = "group_join" THEN GROUP_JOIN_DELAY ELSE MESSAGE_DELAY
Last(op) == IF op = "group_join" THEN last_group_join ELSE last_message_read

\* no sleep before the random variation
NoWaitTime(delay, elapsed) == 0

\* wait_time = DELAY - elapsed
WaitTime(delay, elapsed) == delay - elapsed

\* asyncio.sleep(t) resumes the caller t or more later
AfterSleep(t) == {c \in clock + t .. clock + t + MaxOversleep : c <= MaxClock}

\* wait_for_group_join or wait_for_message_read is called: the clock is read
\* and compared with the time of the last call of the operation
WaitCall ==
  /\ r_pc = "idle"
  /\ \E op \in RateOps :
       /\ r_op' = op
       /\ LET elapsed == clock - Last(op)
          IN IF Last(op) > 0 /\ elapsed < Delay(op)
             THEN /\ wait_time' = WaitTime(Delay(op), elapsed)
                  /\ r_pc' = "sleep"
             ELSE /\ wait_time' = 0
                  /\ r_pc' = "variation"
  /\ UNCHANGED <<schedVars, ledgerVars, msgVars, scrapeVars, catalogVars, crawlerVars, clock,
                 GROUP_JOIN_DELAY, MESSAGE_DELAY, last_group_join, last_message_read,
                 prev_group_join, prev_message_read>>

\* await asyncio.sleep(wait_time)
WaitSleep ==
  /\ r_pc = "sleep"
  /\ clock' \in AfterSleep(wait_time)
  /\ r_pc' = "variation"
  /\ wait_time' = 0
  /\ UNCHANGED <<schedVars, ledgerVars, msgVars, scrapeVars, catalogVars, crawlerVars,
                 GROUP_JOIN_DELAY, MESSAGE_DELAY, last_group_join, last_message_read,
                 r_op, prev_group_join, prev_message_read>>

\* the random variation is slept, the time is stored and the wait resolves
WaitVariation ==
  /\ r_pc = "variation"
  /\ \E random_delay \in 1..MaxJitter : clock' \in AfterSleep(random_delay)
  /\ IF r_op = "group_join"
     THEN /\ last_group_join' = clock'
          /\ prev_group_join' = last_group_join
          /\ UNCHANGED <<last_message_read, prev_message_read>>
     ELSE /\ last_message_read' = clock'
          /\ prev_message_read' = last_message_read
          /\ UNCHANGED <<last_group_join, prev_group_join>>
  /\ r_pc' = "idle"
  /\ UNCHANGED <<schedVars, ledgerVars, msgVars, scrapeVars, catalogVars, crawlerVars,
                 GROUP_JOIN_DELAY, MESSAGE_DELAY, r_op, wait_time>>

\* the caller works between two waits
CallerWorks ==
  /\ r_pc = "idle"
  /\ clock < MaxClock
  /\ clock' = clock + 1
  /\ UNCHANGED <<schedVars, ledgerVars, msgVars, scrapeVars, catalogVars, crawlerVars,
                 GROUP_JOIN_DELAY, MESSAGE_DELAY, last_group_join, last_message_read,
                 r_op, r_pc, wait_time, prev_group_join, prev_message_read>>

InitRate ==
  /\ InitProgram(MaxGlobalCap, MaxAccountCap, NAccounts, NGroups, FALSE)
  /\ NoCatalogCall
  /\ NoCrawler
  /\ \E group_join_delay \in 1..MaxDelay : \E message_delay \in 1..MaxDelay :
       RateLimiterInit(group_join_delay, message_delay)

NextRate ==
  \/ WaitCall
  \/ WaitSleep
  \/ WaitVariation
  \/ CallerWorks

SpecRate == InitRate /\ [][NextRate]_vars

\* ------------------------------------------------------ advanced_crawler.py
InitAdvanced ==
  \E G \in 1..MaxGlobalCap : \E P \in 1..MaxAccountCap : \E sim \in BOOLEAN :
    InitWith(G, P, NAccounts, NGroups, sim)

\* self.stats[key] += n
Count(key, n) == [stats EXCEPT ![key] = @ + n]

\* the scrape of the current group has not started
NoScrape ==
  /\ a_fetched' = 0
  /\ a_processed' = 0
  /\ a_reads' = 0
  /\ a_outcome' = "none"

\* main calls crawl_groups with the links of the catalog
CrawlGroups ==
  /\ a_pc = "idle"
  /\ a_pc' = "client"
  /\ a_group_links' = universal_groups
  /\ UNCHANGED <<a_client, a_groups_for_client, a_i, stats, a_fetched, a_processed,
                 a_reads, a_outcome, a_failed_joins>>
  /\ UNCHANGED <<schedVars, ledgerVars, msgVars, scrapeVars, catalogVars, rateVars>>

\* crawl_groups: the head of one iteration of the loop over the clients
ClientStep ==
  /\ a_pc = "client"
  /\ IF a_client > Len(ACCOUNTS)
     THEN /\ a_pc' = "done"
          /\ UNCHANGED <<a_client, a_group_links, a_groups_for_client, a_i>>
     ELSE LET n == Min(GROUPS_PER_ACCOUNT, Len(a_group_links))
          IN /\ a_groups_for_client' = SubSeq(a_group_links, 1, n)
             /\ a_group_links' = SubSeq(a_group_links, n + 1, Len(a_group_links))
             /\ IF n = 0
                THEN /\ a_client' = a_client + 1
                     /\ UNCHANGED <<a_pc, a_i>>
                ELSE /\ a_pc' = "process"
                     /\ a_i' = 1
                     /\ UNCHANGED a_client
  /\ UNCHANGED <<stats, a_fetched, a_processed, a_reads, a_outcome, a_failed_joins>>
  /\ UNCHANGED <<schedVars, ledgerVars, msgVars, scrapeVars, catalogVars, rateVars>>

\* how _process_group can go up to the call of _scrape_group_messages: the join
\* succeeds, the join fails (the function logs and returns), or a call made before
\* the join request raises (the outer except counts an error)
ProcessOutcomes == {"joined", "join_fails", "raises"}

\* _process_group up to the call of _scrape_group_messages
ProcessGroup ==
  /\ a_pc = "process"
  /\ NoScrape
  /\ \E outcome \in ProcessOutcomes :
       CASE outcome = "joined" ->
              /\ stats' = Count("groups_joined", 1)
              /\ a_pc' = "fetch"
              /\ UNCHANGED a_failed_joins
         [] outcome = "join_fails" ->
              /\ a_failed_joins' = a_failed_joins + 1
              /\ a_pc' = "pace"
              /\ UNCHANGED stats
         [] OTHER ->
              /\ stats' = Count("errors", 1)
              /\ a_pc' = "pace"
              /\ UNCHANGED a_failed_joins
  /\ UNCHANGED <<a_client, a_group_links, a_groups_for_client, a_i>>
  /\ UNCHANGED <<schedVars, ledgerVars, msgVars, scrapeVars, catalogVars, rateVars>>

\* the number of messages a fetch can return: simulate_message_scraping returns
\* min(limit, 50..100) messages, iter_messages up to limit
Fetched == IF SIMULATION_MODE THEN {MaxMessages} ELSE 0..MaxMessages

\* the calls of wait_for_message_read when the per-message wait is left out
ReadsWithoutWait(reads) == reads

\* the calls of wait_for_message_read after the wait that follows a message
ReadsAfterMessage(reads) == reads + 1

\* _scrape_group_messages: wait_for_message_read, then the fetch, which returns
\* the messages or raises
ScrapeFetch ==
  /\ a_pc = "fetch"
  /\ a_reads' = 1
  /\ a_processed' = 0
  /\ \/ \E n \in Fetched :
          /\ a_fetched' = n
          /\ a_pc' = IF n = 0 THEN "pace" ELSE "message"
          /\ a_outcome' = IF n = 0 THEN "empty" ELSE "none"
          /\ UNCHANGED stats
     \/ /\ ~SIMULATION_MODE
        /\ a_fetched' = 0
        /\ a_pc' = "pace"
        /\ a_outcome' = "raised"
        /\ stats' = Count("errors", 1)
  /\ UNCHANGED <<a_client, a_group_links, a_groups_for_client, a_i, a_failed_joins>>
  /\ UNCHANGED <<schedVars, ledgerVars, msgVars, scrapeVars, catalogVars, rateVars>>

\* _scrape_group_messages: one iteration of the loop over the messages, which
\* ends with wait_for_message_read; after the last one the group's statistics;
\* an exception of the classification or of the scoring ends the scrape in the
\* except clause
ScrapeMessage ==
  /\ a_pc = "message"
  /\ \/ IF a_processed < a_fetched
        THEN /\ a_processed' = a_processed + 1
             /\ a_reads' = ReadsAfterMessage(a_reads)
             /\ UNCHANGED <<a_pc, a_outcome, stats>>
        ELSE /\ stats' = Count("messages_scraped", a_fetched)
             /\ a_outcome' = "completed"
             /\ a_pc' = "pace"
             /\ UNCHANGED <<a_processed, a_reads>>
     \/ /\ stats' = Count("errors", 1)
        /\ a_outcome' = "raised"
        /\ a_pc' = "pace"
        /\ UNCHANGED <<a_processed, a_reads>>
  /\ UNCHANGED <<a_client, a_group_links, a_groups_for_client, a_i, a_fetched,
                 a_failed_joins>>
  /\ UNCHANGED <<schedVars, ledgerVars, msgVars, scrapeVars, catalogVars, rateVars>>

\* crawl_groups after _process_group: wait_for_group_join, then the daily limit
\* ends both loops, or the next group or the next client follows
Pace ==
  /\ a_pc = "pace"
  /\ IF stats.groups_joined >= GLOBAL_GROUPS_PER_DAY
     THEN /\ a_pc' = "done"
          /\ UNCHANGED <<a_i, a_client>>
     ELSE IF a_i < Len(a_groups_for_client)
     THEN /\ a_i' = a_i + 1
          /\ a_pc' = "process"
          /\ UNCHANGED a_client
     ELSE /\ a_client' = a_client + 1
          /\ a_pc' = "client"
          /\ UNCHANGED a_i
  /\ UNCHANGED <<a_group_links, a_groups_for_client, stats, a_fetched, a_processed,
                 a_reads, a_outcome, a_failed_joins>>
  /\ UNCHANGED <<schedVars, ledgerVars, msgVars, scrapeVars, catalogVars, rateVars>>

\* main prints the statistics, cleanup runs and the process exits
Cleanup ==
  /\ a_pc = "done"
  /\ a_pc' = "idle"
  /\ a_client' = 1
  /\ a_group_links' = <<>>
  /\ a_groups_for_client' = <<>>
  /\ a_i' = 1
  /\ stats' = [groups_joined |-> 0, messages_scraped |-> 0, errors |-> 0]
  /\ NoScrape
  /\ a_failed_joins' = 0
  /\ UNCHANGED <<schedVars, ledgerVars, msgVars, scrapeVars, catalogVars, rateVars>>

NextAdvanced ==
  \/ CrawlGroups
  \/ ClientStep
  \/ ProcessGroup
  \/ ScrapeFetch
  \/ ScrapeMessage
  \/ Pace
  \/ Cleanup

SpecAdvanced == InitAdvanced /\ [][NextAdvanced]_vars

\* ------------------------------------------------------------ the claims
Accts == DOMAIN ACCOUNTS
TotalJoinedThisRun == SumLens(joinedBy, Len(ACCOUNTS))
Attempted == {attempts[n].group : n \in DOMAIN attempts}
DedupeAtStart == fileAtStart \cup all_joined_links(ledgerAtStart)
RowsOf(tbl, g) == {r \in tbl : r.link = g}

\* C1: within one run the groups joined over all accounts never exceed
\* GLOBAL_GROUPS_PER_DAY minus the join records dated today at the run's start.
C1_GlobalCapPerRun ==
  TotalJoinedThisRun <= GLOBAL_GROUPS_PER_DAY - priorToday

\* a run that began with joins already recorded today, met a failed join, and
\* used up exactly what was left of the global budget over two accounts
C1_Witness ==
  /\ priorToday > 0
  /\ TotalJoinedThisRun = GLOBAL_GROUPS_PER_DAY - priorToday
  /\ \E n \in DOMAIN attempts : ~attempts[n].ok
  /\ \A a \in Accts : Len(joinedBy[a]) > 0

\* C2: for every account and every UTC day, the ledger holds at most
\* GROUPS_PER_ACCOUNT join records of that day owned by that account.
C2_AccountCapPerDay ==
  \A a \in Accts : \A d \in 0..MaxDay :
    today_joins_for_phone(groups, d, ACCOUNTS[a]) <= GROUPS_PER_ACCOUNT

\* a run that began before midnight has filled an account's cap with joins
\* dated on the new day
C2_Witness ==
  /\ today < now
  /\ \E a \in Accts :
       /\ today_joins_for_phone(groups, now, ACCOUNTS[a]) = GROUPS_PER_ACCOUNT
       /\ Len(joinedBy[a]) = GROUPS_PER_ACCOUNT

\* C3: within a run no group is in the joined-this-round list of two accounts,
\* and none is twice in one account's list.
C3_NoDoubleAssignment ==
  \A a, b \in Accts : \A m \in DOMAIN joinedBy[a] : \A n \in DOMAIN joinedBy[b] :
    joinedBy[a][m] = joinedBy[b][n] => (a = b /\ m = n)

\* two accounts have both joined groups in one run, after a failed attempt
C3_Witness ==
  /\ \A a \in Accts : Len(joinedBy[a]) > 0
  /\ \E n \in DOMAIN attempts : ~attempts[n].ok

\* C4: a run makes no join attempt and records no join for a group that was in
\* the DedupeSet (on-disk list united with the ledger) when the run started.
C4_RerunIdempotent ==
  \A g \in DedupeAtStart :
    /\ g \notin Attempted
    /\ RowsOf(groups, g) = RowsOf(ledgerAtStart, g)

\* a second run that began with a non-empty on-disk list and joined another group
C4_Witness ==
  /\ fileAtStart # {}
  /\ \E n \in DOMAIN attempts : attempts[n].ok

\* C6: a failed join attempt changes neither the ledger nor the account's
\* joined-this-round list nor the budget, and the for loop goes on to the next
\* group of the account's batch; the round ends only when the batch is used up,
\* and the run goes on.
C6_FailedJoinIsLocal ==
  [][(Len(attempts') = Len(attempts) + 1 /\ ~attempts'[Len(attempts')].ok)
       => /\ groups' = groups
          /\ joined_today' = joined_today
          /\ joinedBy' = joinedBy
          /\ remaining_global' = remaining_global
          /\ pending_links' = pending_links
          /\ IF k < Len(to_join)
             THEN pc' = "join" /\ k' = k + 1 /\ to_join' = to_join
             ELSE pc' = "update"]_vars

\* an account's attempt failed and the same account then joined its next candidate
C6_Witness ==
  \E n \in DOMAIN attempts :
    /\ n + 1 \in DOMAIN attempts
    /\ ~attempts[n].ok
    /\ attempts[n + 1].ok
    /\ attempts[n + 1].acct = attempts[n].acct
    /\ attempts[n + 1].group # attempts[n].group

\* C10: a group with a join record in the ledger at the start of a run is never
\* attempted in that run, whatever the state of the on-disk list.
C10_LedgerIsAuthoritative ==
  \A g \in all_joined_links(ledgerAtStart) : g \notin Attempted

\* a run that found the on-disk list unparseable while the ledger held joins,
\* and has attempted another group
C10_Witness ==
  /\ joined_file.kind = "garbage"
  /\ pc = "join"
  /\ ledgerAtStart # {}
  /\ attempts # <<>>

\* the pending pool of the current run as it was computed at the run's start
PoolAtStart == PendingLinks(universal_groups, DedupeAtStart)

RECURSIVE JoinedInOrder(_)
JoinedInOrder(n) == IF n = 0 THEN <<>> ELSE JoinedInOrder(n - 1) \o joinedBy[n]

\* C5: a run in which every join succeeds, begun with no join recorded today and
\* a pool of at least G candidates, joins exactly min(G, A*P) groups: the pool's
\* first ones in order, account a taking min(P, what the earlier accounts left of
\* G); no other candidate is attempted or recorded.
C5_AllSucceedFillsInOrder ==
  (/\ pc = "done"
   /\ priorToday = 0
   /\ Len(PoolAtStart) >= GLOBAL_GROUPS_PER_DAY
   /\ \A n \in DOMAIN attempts : attempts[n].ok)
  => LET G == GLOBAL_GROUPS_PER_DAY
         P == GROUPS_PER_ACCOUNT
         total == Min(G, Len(ACCOUNTS) * P)
     IN /\ TotalJoinedThisRun = total
        /\ \A a \in Accts : Len(joinedBy[a]) = Min(P, Max(0, G - (a - 1) * P))
        /\ JoinedInOrder(Len(ACCOUNTS)) = SubSeq(PoolAtStart, 1, total)
        /\ Attempted = Range(SubSeq(PoolAtStart, 1, total))
        /\ all_joined_links(groups) \ all_joined_links(ledgerAtStart) = Attempted

\* G = 5, P = 3, two accounts, 10 candidates: 3 joins, then 2, and 5 groups untouched
C5_Witness ==
  /\ pc = "done"
  /\ GLOBAL_GROUPS_PER_DAY = 5 /\ GROUPS_PER_ACCOUNT = 3
  /\ Len(ACCOUNTS) = 2 /\ Len(universal_groups) = 10
  /\ joinedBy[1] = <<1, 2, 3>>
  /\ joinedBy[2] = <<4, 5>>
  /\ Attempted = 1..5
  /\ all_joined_links(groups) = 1..5
  /\ pending_links = <<6, 7, 8, 9, 10>>

\* C7: when the message iterator raises after k >= 1 messages were fetched,
\* scrape_messages returns those k messages and they are in every sink.
C7_FloodKeepsPartial ==
  (s_pc = "returned" /\ s_flood /\ Len(s_messages) >= 1)
  => /\ s_result = s_messages
     /\ s_group \in DOMAIN json_files
     /\ json_files[s_group] = s_messages
     /\ \A n \in DOMAIN s_messages :
          \E r \in messages : MessageKey(r) = <<s_messages[n].id, s_group>>

\* C8: after any sequence of record_messages calls the store holds exactly one
\* row per (id, group) pair offered, and it is the row of the first insert.
C8_MessageInsertIdempotent ==
  /\ \A key \in DOMAIN msgFirst :
       {r \in messages : MessageKey(r) = key} = {msgFirst[key]}
  /\ \A r \in messages : MessageKey(r) \in DOMAIN msgFirst

\* a pair was offered again with another date, sender and text, and the same id
\* is stored for two groups
C8_Witness ==
  /\ msgReoffered
  /\ \E r1, r2 \in messages : r1.id = r2.id /\ r1.group_link # r2.group_link

\* C9: the ledger holds at most one join record per link, carrying the
\* timestamp and owner of the latest record_group_join for that link.
C9_JoinUpsert ==
  /\ \A link \in DOMAIN joinLast :
       RowsOf(groups, link) =
         {[link |-> link, joined_at |-> joinLast[link][1],
           account_phone |-> joinLast[link][2]]}
  /\ \A r \in groups : r.link \in DOMAIN joinLast

\* a link was recorded again with another timestamp and another owner
C9_Witness ==
  /\ joinReplaced
  /\ Cardinality(groups) >= 2

\* the attempts the account of the current round has made
AttemptedBy(a) == {attempts[n].group : n \in {m \in DOMAIN attempts : attempts[m].acct = a}}

\* C11: while a run goes on, every group it got joined on the network has a
\* join record in the ledger: a failing ledger write ends join_groups with the
\* exception instead of being logged and skipped.
C11_LedgerFailureSurfaced ==
  pc \in {"join", "update", "account"}
  => \A g \in Attempted \cap network_joined : g \in all_joined_links(groups)

\* C12: when main returns or raises, no session that init_clients opened is
\* still connected.
C12_SessionsClosedOnExit ==
  pc \in {"done", "raised"} => connected = {}

\* C13: when client.start raises for one account, every other account is in
\* self.clients and the run goes on instead of ending with the exception.
C13_AuthFailureIsLocal ==
  auth_failed # 0
  => /\ pc # "raised"
     /\ Range(clients) = Range(ACCOUNTS) \ {ACCOUNTS[auth_failed]}

\* C15: in simulation mode a run issues no remote operation: no connect, no
\* join request.
C15_SimulationNoNetwork ==
  SIMULATION_MODE => remote_ops = {}

\* C19: an account's join phase is over only when it has made `allowed` joins or
\* has tried every pending candidate.
C19_RoundEndsOnlyWhenFilledOrExhausted ==
  pc = "update"
  => \/ Len(joined_today) >= allowed
     \/ Range(pending_links) \subseteq AttemptedBy(idx)

\* C20: within a run no group is attempted by two accounts, whether the first
\* attempt joined or failed.
C20_NoGroupHandedToTwoAccounts ==
  \A m, n \in DOMAIN attempts :
    attempts[m].group = attempts[n].group => attempts[m].acct = attempts[n].acct

\* the sinks of scrape_messages
Sinks == {"json", "csv", "db"}

\* C14: a call of scrape_messages that has collected its messages and reached
\* the sinks ends with every sink tried, whichever of them failed.
C14_SinksIndependent ==
  (s_pc \in {"returned", "raised"} /\ s_tried # {}) => s_tried = Sinks

\* the selected source is malformed: not JSON, or JSON that is not an array of
\* objects
Malformed(file) ==
  \/ file.kind = "unparseable"
  \/ /\ file.kind = "json"
     /\ \/ file.type # "array"
        \/ \E n \in DOMAIN file.items : file.items[n].type # "object"

\* C16: on a malformed catalog source load_universal_groups returns the empty
\* list and does not raise.
C16_MalformedCatalogYieldsEmpty ==
  (c_pc = "done" /\ Malformed(catalog_file)) => c_result = Returned(<<>>)

\* the raw entries that survive the category filter and have an identifier
Candidates ==
  LET items == catalog_file.items
  IN {n \in DOMAIN items :
        /\ CATEGORY_FILTER # "" => PassesFilter(items[n], CATEGORY_FILTER)
        /\ NormLink(items[n]) # ""}

\* high over medium over low, a missing priority counted as medium
PriorityLevel(raw) ==
  LET p == NormPriority(raw)
  IN IF p = "high" THEN 3 ELSE IF p = "medium" THEN 2 ELSE 1

\* the first of the candidates of identifier link that have the highest priority
Retained(link) ==
  LET same == {n \in Candidates : NormLink(catalog_file.items[n]) = link}
      best == {n \in same : \A o \in same :
                 PriorityLevel(catalog_file.items[n]) >= PriorityLevel(catalog_file.items[o])}
  IN CHOOSE n \in best : \A o \in best : n <= o

\* C17: the entries load_universal_groups returns have pairwise distinct
\* identifiers, one for every identifier of the input, and each is the first of
\* the input entries of that identifier that have the highest priority.
C17_DedupeKeepsHighestPriority ==
  (c_pc = "done" /\ c_result.kind = "returned" /\ catalog_file.kind = "json")
  => LET out == c_result.value
     IN /\ \A m, n \in DOMAIN out : out[m].link = out[n].link => m = n
        /\ {out[n].link : n \in DOMAIN out}
             = {NormLink(catalog_file.items[n]) : n \in Candidates}
        /\ \A n \in DOMAIN out :
             out[n] = NormEntry(catalog_file.items[Retained(out[n].link)])

\* three entries of one identifier: low, then two of high priority that differ
\* in category; the first of the two is the one returned
C17_Witness ==
  /\ c_pc = "done"
  /\ CATEGORY_FILTER = ""
  /\ catalog_file.kind = "json" /\ catalog_file.type = "array"
  /\ Len(catalog_file.items) = 3
  /\ \A n \in 1..3 : NormLink(catalog_file.items[n]) = "a"
  /\ NormPriority(catalog_file.items[1]) = "low"
  /\ catalog_file.items[2].priority = " High " /\ catalog_file.items[2].category = "jobs"
  /\ catalog_file.items[3].priority = "high" /\ catalog_file.items[3].category = "news"
  /\ c_result = Returned(<<[link |-> "a", category |-> "jobs", priority |-> "high"]>>)

\* C18: for both operations, the latest invocation completed at least the
\* configured delay after the one before it, and while a wait is unresolved
\* the caller is not running.
C18_MinimumInterval ==
  /\ prev_group_join > 0 => last_group_join - prev_group_join >= GROUP_JOIN_DELAY
  /\ prev_message_read > 0 => last_message_read - prev_message_read >= MESSAGE_DELAY
  /\ wait_time > 0 => r_pc = "sleep"

\* a second wait_for_group_join was called before the delay had elapsed, slept
\* the rest of it, and completed; a wait_for_message_read completed in between
C18_Witness ==
  /\ GROUP_JOIN_DELAY = MaxDelay
  /\ prev_group_join > 0
  /\ prev_message_read = 0 /\ prev_group_join < last_message_read
  /\ last_message_read < last_group_join
  /\ last_group_join - prev_group_join <= GROUP_JOIN_DELAY + MaxJitter
  /\ r_pc = "idle"

\* the full dedupe set: the on-disk list united with the ledger's links
DedupeSet == load_joined_groups(joined_file) \cup all_joined_links(groups)

\* C23: after a round whose scraping ran, scrape_messages has been called for
\* every group of the on-disk list and of the ledger.
C23_ScrapeExistingCoversDedupeSet ==
  (SCRAPE_EXISTING_GROUPS /\ pc = "account" /\ scraped # {}) => DedupeSet \subseteq scraped

\* C24: no exception of scrape_messages ends the run.
C24_ScrapeFailureIsLocal ==
  ~(pc = "raised" /\ raised_by = "scrape_messages")

\* C25: the join attempts of a run are paced by the rate limiter's waits, never
\* by a fixed sleep.
C25_JoinsPacedByRateGovernor ==
  attempts # <<>>
  => /\ "wait_for_general_request" \in pacing
     /\ "asyncio.sleep(delay)" \notin pacing

\* C21: once the budget left for the run (the day's budget at the start of the
\* run minus the joins of the run) is 0 at the head of the account loop, the loop
\* ends: no further account makes a join attempt, a scrape or any remote call
C21_NoAccountAfterBudgetSpent ==
  [][(/\ pc = "account"
      /\ TotalJoinedThisRun >= GLOBAL_GROUPS_PER_DAY - priorToday)
     => /\ pc' = "done"
        /\ attempts' = attempts
        /\ joinedBy' = joinedBy
        /\ scraped' = scraped
        /\ remote_ops' = remote_ops
        /\ groups' = groups]_vars

\* the loop has ended on the global budget before an account that has budget of
\* its own and pending groups to draw from
C21_Witness ==
  /\ pc = "done"
  /\ remaining_global = 0
  /\ idx > 1
  /\ idx <= Len(clients)
  /\ joinedBy[idx] = <<>>
  /\ pending_links # <<>>
  /\ today_joins_for_phone(groups, today, clients[idx]) < GROUPS_PER_ACCOUNT

\* C28: at the head of every account iteration, while the UTC day is the one read
\* at the start of the run, remaining_global is max(0, GLOBAL_GROUPS_PER_DAY minus
\* the ledger's count of join records dated today)
C28_RemainingGlobalTracksLedger ==
  (pc = "account" /\ now = today)
  => remaining_global
       = Max(0, GLOBAL_GROUPS_PER_DAY - today_total_joins(groups, today))

\* a later iteration of a run that started with joins already recorded today and
\* has recorded more
C28_Witness ==
  /\ pc = "account"
  /\ now = today
  /\ idx > 1
  /\ priorToday > 0
  /\ TotalJoinedThisRun > 0
  /\ remaining_global > 0

\* C30: at every account boundary the pending list has no duplicates and holds no
\* group of the in-memory joined set or of the ledger
C30_PendingDisjointFromJoined ==
  pc = "account"
  => /\ \A i, j \in DOMAIN pending_links :
          pending_links[i] = pending_links[j] => i = j
     /\ Range(pending_links) \cap (joined_groups \cup all_joined_links(groups)) = {}

\* a boundary after a round that joined a group, with groups still pending and
\* groups known from an earlier run
C30_Witness ==
  /\ pc = "account"
  /\ idx > 1
  /\ joinedBy[idx - 1] # <<>>
  /\ pending_links # <<>>
  /\ ledgerAtStart # {}

\* C22: the groups joined in rounds that ran to their end, in this run or in an
\* earlier one that returned or was killed, are never in the pending list of a
\* run; and after each round of the run that reached the join phase and ended,
\* the groups it joined are in data/joined_groups.json
C22_CompletedRoundsSurviveCrash ==
  pc # "idle"
  => /\ Range(pending_links) \cap completed = {}
     /\ \A a \in 1..(idx - 1) :
          a \in DOMAIN joinedBy => Range(joinedBy[a]) \subseteq load_joined_groups(joined_file)

\* a run that follows a killed one whose first round had joined a group, with
\* the list file lost in between, and is now drawing for an account
C22_Witness ==
  /\ pc = "join"
  /\ completed # {}
  /\ completed \cap fileAtStart = {}
  /\ attempts = <<>>
  /\ ~(completed = all_joined_links(ledgerAtStart))

\* C29: every group in an account's joined-this-round list has a ledger row
\* owned by that account, and every group added to joined_groups during the run
\* has a ledger row
C29_LedgerCommittedBeforeDedupe ==
  /\ \A g \in joined_groups \ fileAtStart : g \in all_joined_links(groups)
  /\ pc # "idle"
     => \A a \in DOMAIN joinedBy : \A g \in Range(joinedBy[a]) :
          \E r \in groups : r.link = g /\ r.account_phone = clients[a]
  /\ pc \in {"join", "update"}
     => \A g \in Range(joined_today) :
          \E r \in groups : r.link = g /\ r.account_phone = clients[idx]

\* a round in which one ledger write raised and a later one committed
C29_Witness ==
  /\ pc = "update"
  /\ joined_today # <<>>
  /\ \E n \in DOMAIN attempts :
       /\ attempts[n].acct = idx
       /\ ~attempts[n].ok
       /\ attempts[n].group \in network_joined
       /\ attempts[n].group \notin joined_groups

\* C26: in _scrape_group_messages, while the messages of a fetch are processed
\* the calls of wait_for_message_read number one plus the messages processed,
\* and a scrape of N >= 1 messages that ran to its end has made N + 1 calls
C26_ReadWaitPerMessage ==
  /\ a_pc = "message" => a_reads = 1 + a_processed
  /\ a_outcome = "completed"
     => /\ a_fetched >= 1
        /\ a_processed = a_fetched
        /\ a_reads = a_fetched + 1

\* a scrape of at least two messages has run to its end
C26_Witness ==
  /\ a_outcome = "completed"
  /\ a_fetched >= 2
  /\ a_reads = a_fetched + 1

\* C27: every failed join attempt of the crawl is counted in the error tally
\* that the end-of-run summary reports
C27_FailedJoinsCounted ==
  stats.errors >= a_failed_joins

============================================================================
